---- MODULE Spec2Model ----
(***************************************************************************)
(* A model of src/display_list.rs: the DisplayList binding over the        *)
(* engine's reference-counted fz_display_list.                             *)
(*                                                                         *)
(* The Rust side (the handle, every public method, Drop) is translated     *)
(* from the source.  The engine behind the FFI calls, the result-buffer    *)
(* adapter (rust_vec_from_ffi_ptr) and the collaborators that call         *)
(* from_raw live outside display_list.rs; they are modelled from the       *)
(* written specification and are marked so in the model map.               *)
(***************************************************************************)
EXTENDS Integers, Sequences, FiniteSets, TLC

VARIABLES
    store,      \* engine heap: pointer -> the fz_display_list stored there
    images,     \* pointer -> number of engine Image objects holding a reference to it
    handle,     \* DisplayList objects: slot -> [st, inner]
    pc,         \* thread -> where the thread is inside a call
    cur,        \* thread -> the call the thread is making (arguments, locals, ghosts)
    hit_count,  \* memory cell -> value of search's local `hit_count`
    buf,        \* thread -> the hit buffer of the thread's search call
    result,     \* thread -> what the thread's last call returned
    dev,        \* thread -> drawing operations forwarded to the thread's device
    cookie,     \* the caller-owned cookie's abort flag
    hazard      \* memory-safety violations that have happened (never any, if the claims hold)

vars == <<store, images, handle, pc, cur, hit_count, buf, result, dev, cookie, hazard>>

----------------------------------------------------------------------------
(* Bounds of the model *)

NumThreads == 2      \* threads searching one shared object
NumHandles == 2      \* DisplayList object slots
NumPtrs == 1         \* engine allocations available
MaxRecLen == 2       \* longest enumerated recording
MaxNeedleLen == 2    \* longest enumerated needle
MaxCap == 2          \* small caps 0..MaxCap, beside the boundary caps
MaxImages == 1       \* engine Image objects alive per recording
WordBits == 8        \* modelled width of u32 and of the C int

Min(a, b) == IF a < b THEN a ELSE b

Max(a, b) == IF a > b THEN a ELSE b

(* Program constants *)

NUL == 0             \* the byte CString::new rejects
NullPtr == 0         \* ptr::null_mut()
DefaultHitMax == 16  \* the cap substituted for hit_max < 1

\* hit_max is a u32 and the engine takes a C int of the same width.  TLC's
\* integers are themselves 32 bits wide, so the two types are modelled at WordBits
\* bits: u32 is 0 .. U32Modulus - 1 and the C int is -(IntMax + 1) .. IntMax
U32Modulus == 2 ^ WordBits
IntMax == 2 ^ (WordBits - 1) - 1

Threads == 1 .. NumThreads
Handles == 1 .. NumHandles
Ptrs == 1 .. NumPtrs
\* the recorded drawing operations: two text glyphs, so that a needle may be absent
Glyphs == {1, 2}
Bytes == {NUL} \cup Glyphs

----------------------------------------------------------------------------
(* Sequences *)

SeqsUpTo(S, n) == UNION {[1 .. k -> S] : k \in 0 .. n}

Take(s, k) == SubSeq(s, 1, IF k < Len(s) THEN k ELSE Len(s))

IsPrefix(s, t) == Len(s) <= Len(t) /\ SubSeq(t, 1, Len(s)) = s

Repeat(x, k) == [i \in 1 .. k |-> x]

----------------------------------------------------------------------------
(* Result values *)

Ok(v) == [kind |-> "ok", err |-> "", val |-> v]
Err(e) == [kind |-> "err", err |-> e, val |-> <<>>]
NoResult == [kind |-> "none", err |-> "", val |-> <<>>]
Pending == [kind |-> "pending", err |-> "", val |-> <<>>]

----------------------------------------------------------------------------
(* The Rust side of search: lines 97-111 *)

HasNul(needle) == \E i \in 1 .. Len(needle) : needle[i] = NUL

\* a conversion that lets an interior NUL through
CStringNewLossy(needle) == Ok(needle \o <<NUL>>)

\* CString::new(needle)?  -- rejects an interior NUL, otherwise appends the terminator
CStringNew(needle) ==
    IF HasNul(needle) THEN Err("InvalidArgument") ELSE Ok(needle \o <<NUL>>)

\* a cap of 0 raised to 1 instead of the default
EffectiveHitMaxOne(n) == IF n < 1 THEN 1 ELSE n

\* let hit_max = if hit_max < 1 { 16 } else { hit_max };
EffectiveHitMax(n) == IF n < 1 THEN DefaultHitMax ELSE n

\* `hit_max as _`: the u32 reinterpreted as the C int the engine function takes
AsCInt(v) ==
    LET w == v % U32Modulus
    IN  IF w > IntMax THEN w - U32Modulus ELSE w

\* hit_count kept in one cell that every call shares (a static)
SharedHitCountCell(t) == 1

\* `let mut hit_count = 0;` is a local of the call: one memory cell per calling thread
HitCountCell(t) == t

\* the adapter run whatever the engine returned
AdapterAlways(engineOk) == TRUE

\* .and_then(|quads| ...): the adapter runs only on the engine's Ok
AdapterInvoked(engineOk) == engineOk

\* the capacity handed over instead of the reported count
AdaptLenCapacity(count, hit_max) == hit_max

\* rust_vec_from_ffi_ptr(quads, hit_count): the length handed to the adapter
AdaptLen(count, hit_max) == count

\* fz_display_list_is_empty(..) > 0
IsEmptyResult(r) == r > 0

----------------------------------------------------------------------------
(* The engine's search and the result-buffer adapter *)

NoBuf == [st |-> "none", cap |-> 0, data |-> <<>>, moves |-> 0, frees |-> 0]

\* what the engine reads through the char pointer: the bytes before the first NUL
CStrBytes(c) ==
    LET nuls == {i \in 1 .. Len(c) : c[i] = NUL}
    IN  IF nuls = {} THEN c
        ELSE SubSeq(c, 1, (CHOOSE i \in nuls : \A j \in nuls : i <= j) - 1)

MatchAt(text, pat, i) ==
    /\ i + Len(pat) - 1 <= Len(text)
    /\ \A k \in 1 .. Len(pat) : text[i + k - 1] = pat[k]

\* the occurrences of pat in text from position i on, in scan order; a hit is
\* identified by the position of its first glyph (its quad is that glyph run's box)
RECURSIVE Scan(_, _, _)
Scan(text, pat, i) ==
    IF pat = <<>> \/ i > Len(text) THEN <<>>
    ELSE IF MatchAt(text, pat, i) THEN <<i>> \o Scan(text, pat, i + Len(pat))
    ELSE Scan(text, pat, i + 1)

\* what the environment lets an engine search do: run to its end, run out of memory
\* for the hit buffer, or fail while it extracts the text
EngineOutcomes == {"ok", "alloc", "scan"}

\* mupdf_search_display_list(ctx, list, needle, hit_max, &hit_count): allocates a
\* buffer of hit_max quads, fills at most hit_max of them and reports how many
MupdfSearchDisplayList(ops, c_needle, hit_max_c, outcome) ==
    IF hit_max_c < 0 \/ outcome = "alloc"
    THEN [ok |-> FALSE, err |-> "AllocationError", buf |-> NoBuf, count |-> 0]
    ELSE IF outcome = "scan"
    THEN [ok |-> FALSE, err |-> "RenderError",
          buf |-> [NoBuf EXCEPT !.st = "freed", !.cap = hit_max_c, !.frees = 1],
          count |-> 0]
    ELSE LET data == Take(Scan(ops, CStrBytes(c_needle), 1), hit_max_c)
         IN  [ok |-> TRUE, err |-> "",
              buf |-> [NoBuf EXCEPT !.st = "engine", !.cap = hit_max_c, !.data = data],
              count |-> Len(data)]

\* what a sequence of len records read from buffer b holds: the hits the engine
\* wrote, then zeroed records up to the capacity, then whatever lies beyond it
HitsValue(b, len) ==
    [quads |-> Take(b.data, len),
     zeros |-> Max(0, Min(len, b.cap) - Len(b.data)),
     wild |-> Max(0, len - b.cap)]

\* rust_vec_from_ffi_ptr(ptr, len): moves the allocation into an owned sequence
RustVecFromFfiPtr(b, len) ==
    [val |-> HitsValue(b, len),
     buf |-> [b EXCEPT !.st = "owned", !.moves = @ + 1],
     sound |-> b.st = "engine" /\ 0 <= len /\ len <= b.cap]

ResultLen(v) == Len(v.quads) + v.zeros + v.wild

----------------------------------------------------------------------------
(* The engine heap: reference-counted recordings *)

Regions == {"a4", "a5"}

NoList == [st |-> "unalloc", refs |-> 0, ops |-> <<>>, mediabox |-> "none",
           origin |-> "none", populated |-> FALSE, frees |-> 0]

ListAt(p) == IF p \in Ptrs THEN store[p] ELSE NoList

Live(p) == ListAt(p).st = "live"

FreePtrs == {p \in Ptrs : store[p].st = "unalloc"}

FirstFree == CHOOSE p \in FreePtrs : \A q \in FreePtrs : p <= q

\* a fresh recording holding one reference, owned by whoever asked for it
Allocated(region, ops, origin) ==
    [st |-> "live", refs |-> 1, ops |-> ops, mediabox |-> region,
     origin |-> origin, populated |-> FALSE, frees |-> 0]

\* fz_keep_display_list
FzKeep(s, p) == [s EXCEPT ![p].refs = @ + 1]

\* fz_drop_display_list on live storage: one reference less, freed at zero
FzDrop(s, p) ==
    IF s[p].refs = 1
    THEN [s EXCEPT ![p] = [NoList EXCEPT !.st = "freed", !.frees = s[p].frees + 1]]
    ELSE [s EXCEPT ![p].refs = @ - 1]

\* k releases in a row; a release that finds the storage already freed is a double free
RECURSIVE ReleaseN(_, _, _)
ReleaseN(s, p, k) ==
    IF k = 0 THEN [s |-> s, bad |-> FALSE]
    ELSE IF p \in Ptrs /\ s[p].st = "live" THEN ReleaseN(FzDrop(s, p), p, k - 1)
    ELSE [s |-> s, bad |-> TRUE]

\* an engine that consumes the recording as it reads it
EngineReadsConsuming(s, p) == IF p \in DOMAIN s THEN [s EXCEPT ![p].ops = <<>>] ELSE s

\* the heap after the engine has read the recording at p during a replay, a search
\* or a query: the engine only reads a finished recording
EngineReads(s, p) == s

\* mupdf_new_display_list(ctx, media_box) under ffi_try!: a pointer, or the error
MupdfNewDisplayList(ok) ==
    IF ok /\ FreePtrs # {} THEN [ok |-> TRUE, ptr |-> FirstFree]
    ELSE [ok |-> FALSE, ptr |-> NullPtr]

\* fz_bound_display_list
FzBoundDisplayList(l) == l.mediabox

\* fz_display_list_is_empty
FzDisplayListIsEmpty(l) == IF Len(l.ops) = 0 THEN 1 ELSE 0

----------------------------------------------------------------------------
(* The DisplayList object: lines 10-23 and 114-122 *)

NoHandle == [st |-> "none", inner |-> NullPtr]

\* from_raw(ptr): Self { inner: ptr }
FromRaw(ptr) == [st |-> "live", inner |-> ptr]

\* an object built from whatever pointer came back, error or not
NewMapUnchecked(ret) == [st |-> "live", inner |-> ret.ptr]

\* new: ffi_try!(..).map(|inner| Self { inner })  -- an object only on Ok
NewMap(ret) ==
    IF ret.ok THEN [st |-> "live", inner |-> ret.ptr]
    ELSE [st |-> "failed", inner |-> NullPtr]

\* a teardown that releases twice
DropReleasesTwice(inner) == IF inner # NullPtr THEN 2 ELSE 0

\* Drop: if !self.inner.is_null() { fz_drop_display_list(..) }  -- references released
DropReleases(inner) == IF inner # NullPtr THEN 1 ELSE 0

\* between entering a call and its return
InFlight(t) == pc[t] \notin {"idle", "done"}

\* a call in flight holds &self: the object cannot be moved or dropped meanwhile
Borrowed(h) == \E t \in Threads : InFlight(t) /\ cur[t].h = h

\* a call in flight somewhere reads the recording at p
PtrInUse(p) == \E t \in Threads : InFlight(t) /\ handle[cur[t].h].inner = p

UnchangedThreads == UNCHANGED <<pc, cur, hit_count, buf, result, dev, cookie>>

\* DisplayList::new(media_box)
New(h, region, ok) ==
    /\ handle[h].st = "none"
    /\ LET ret == MupdfNewDisplayList(ok)
       IN  /\ handle' = [handle EXCEPT ![h] = NewMap(ret)]
           /\ store' = IF ret.ok
                       THEN [store EXCEPT ![ret.ptr] = Allocated(region, <<>>, "new")]
                       ELSE store
    /\ UNCHANGED <<images, hazard>>
    /\ UnchangedThreads

\* the page-conversion collaborator: records a page and adopts the list with from_raw
PageToDisplayList(h, region, ops) ==
    /\ handle[h].st = "none"
    /\ FreePtrs # {}
    /\ store' = [store EXCEPT ![FirstFree] = Allocated(region, ops, "page")]
    /\ handle' = [handle EXCEPT ![h] = FromRaw(FirstFree)]
    /\ UNCHANGED <<images, hazard>>
    /\ UnchangedThreads

\* a collaborator takes one more reference to a live recording and adopts it
AdoptShared(h, p) ==
    /\ handle[h].st = "none"
    /\ Live(p)
    /\ store' = FzKeep(store, p)
    /\ handle' = [handle EXCEPT ![h] = FromRaw(p)]
    /\ UNCHANGED <<images, hazard>>
    /\ UnchangedThreads

\* the recording device appends an operation to a list made by new, before it is replayed
Populate(h, g) ==
    /\ handle[h].st = "live"
    /\ Live(handle[h].inner)
    /\ LET p == handle[h].inner
       IN  /\ store[p].origin = "new"
           /\ Len(store[p].ops) < MaxRecLen
           /\ ~PtrInUse(p)
           /\ store' = [store EXCEPT ![p].ops = Append(@, g), ![p].populated = TRUE]
    /\ UNCHANGED <<images, handle, hazard>>
    /\ UnchangedThreads

\* impl Drop for DisplayList
Drop(h) ==
    /\ handle[h].st = "live"
    /\ ~Borrowed(h)
    /\ LET r == ReleaseN(store, handle[h].inner, DropReleases(handle[h].inner))
       IN  /\ store' = r.s
           /\ hazard' = IF r.bad THEN hazard \cup {"double_free"} ELSE hazard
    /\ handle' = [handle EXCEPT ![h].st = "dropped"]
    /\ UNCHANGED images
    /\ UnchangedThreads

\* an engine Image made by to_image is destroyed: its reference goes
ImageDrop(p) ==
    /\ images[p] > 0
    /\ images' = [images EXCEPT ![p] = @ - 1]
    /\ LET r == ReleaseN(store, p, 1)
       IN  /\ store' = r.s
           /\ hazard' = IF r.bad THEN hazard \cup {"double_free"} ELSE hazard
    /\ UNCHANGED handle
    /\ UnchangedThreads

----------------------------------------------------------------------------
(* Calls on a DisplayList: lines 25-111.  A call enters the engine in one step *)
(* and comes back in a later one, so that other threads run in between.        *)

NoCall == [op |-> "none", h |-> 0, needle |-> <<>>, n |-> 0, hit_max |-> 0,
           c_needle |-> <<>>, cookieArg |-> FALSE, pre |-> FALSE, pos |-> 0,
           engineCalls |-> 0, eng |-> "none", reported |-> 0, adaptLen |-> 0,
           ops0 |-> <<>>, env |-> "none"]

\* the call record of thread t's call of op on h; ops0 remembers the recording as
\* it is when the call is made
NewCall(op, h) ==
    [NoCall EXCEPT !.op = op, !.h = h, !.ops0 = ListAt(handle[h].inner).ops]

SimpleOps == {"bounds", "is_empty", "to_pixmap", "to_text_page", "to_image"}

\* the operations that have no failure mode
Infallible(op) == op \in {"bounds", "is_empty"}

CallerMayUse(t, h) ==
    /\ pc[t] = "idle"
    /\ handle[h].st = "live"

\* bounds(): the rectangle the engine reports
Bounds(l) == Ok(FzBoundDisplayList(l))

\* is_empty()
IsEmpty(l) == Ok(IsEmptyResult(FzDisplayListIsEmpty(l)))

\* to_pixmap(ctm, cs, alpha): a fresh pixmap rendered from the recording, or the error
ToPixmap(l, ok) == IF ok THEN Ok(<<"pixmap", l.ops>>) ELSE Err("RenderError")

\* to_text_page(opts)
ToTextPage(l, ok) == IF ok THEN Ok(<<"text_page", l.ops>>) ELSE Err("RenderError")

\* to_image(width, height): Image::from_display_list(self, width, height)
ToImage(l, ok) == IF ok THEN Ok(<<"image", l.ops>>) ELSE Err("RenderError")

SimpleResult(op, l, ok) ==
    CASE op = "bounds" -> Bounds(l)
      [] op = "is_empty" -> IsEmpty(l)
      [] op = "to_pixmap" -> ToPixmap(l, ok)
      [] op = "to_text_page" -> ToTextPage(l, ok)
      [] op = "to_image" -> ToImage(l, ok)

\* the hazard a call adds when the storage it reads is not live
ReadHazard(p) == IF Live(p) THEN hazard ELSE hazard \cup {"use_after_free"}

\* thread t calls bounds, is_empty, to_pixmap, to_text_page or to_image on h
Call(t, h, op) ==
    /\ CallerMayUse(t, h)
    /\ op \in SimpleOps
    /\ cur' = [cur EXCEPT ![t] = NewCall(op, h)]
    /\ result' = [result EXCEPT ![t] = Pending]
    /\ pc' = [pc EXCEPT ![t] = "engine"]
    /\ UNCHANGED <<store, images, handle, hit_count, buf, dev, cookie, hazard>>

\* the engine call of a simple operation runs and returns
EngineSimple(t, ok) ==
    /\ pc[t] = "engine"
    /\ cur[t].op \in SimpleOps
    /\ LET p == handle[cur[t].h].inner
           l == ListAt(p)
           op == cur[t].op
           kept == op = "to_image" /\ ok /\ Live(p)
       IN  /\ Infallible(op) => ok
           /\ (op = "to_image" /\ ok) => images[p] < MaxImages
           /\ result' = [result EXCEPT ![t] = SimpleResult(op, l, ok)]
           /\ store' = IF kept THEN FzKeep(EngineReads(store, p), p)
                       ELSE EngineReads(store, p)
           /\ images' = IF kept THEN [images EXCEPT ![p] = @ + 1] ELSE images
           /\ hazard' = ReadHazard(p)
    /\ pc' = [pc EXCEPT ![t] = "done"]
    /\ UNCHANGED <<handle, cur, hit_count, buf, dev, cookie>>

\* search(needle, hit_max), up to the FFI call
SearchCall(t, h, needle, n) ==
    /\ CallerMayUse(t, h)
    /\ LET c == CStringNew(needle)
           call == [NewCall("search", h) EXCEPT !.needle = needle, !.n = n]
       IN  IF c.kind = "err"
           THEN /\ cur' = [cur EXCEPT ![t] = call]
                /\ result' = [result EXCEPT ![t] = c]
                /\ pc' = [pc EXCEPT ![t] = "done"]
                /\ UNCHANGED hit_count
           ELSE /\ cur' = [cur EXCEPT ![t] = [call EXCEPT !.c_needle = c.val,
                                                          !.hit_max = EffectiveHitMax(n)]]
                /\ hit_count' = [hit_count EXCEPT ![HitCountCell(t)] = 0]
                /\ result' = [result EXCEPT ![t] = Pending]
                /\ pc' = [pc EXCEPT ![t] = "engine"]
    /\ buf' = [buf EXCEPT ![t] = NoBuf]
    /\ UNCHANGED <<store, images, handle, dev, cookie, hazard>>

\* mupdf_search_display_list runs: it reads the recording and reports through hit_count
SearchEngine(t, outcome) ==
    /\ pc[t] = "engine"
    /\ cur[t].op = "search"
    /\ LET p == handle[cur[t].h].inner
           e == MupdfSearchDisplayList(ListAt(p).ops, cur[t].c_needle,
                                       AsCInt(cur[t].hit_max), outcome)
       IN  /\ hit_count' = IF e.ok
                           THEN [hit_count EXCEPT ![HitCountCell(t)] = e.count]
                           ELSE hit_count
           /\ buf' = [buf EXCEPT ![t] = e.buf]
           /\ cur' = [cur EXCEPT ![t].engineCalls = @ + 1,
                                 ![t].env = outcome,
                                 ![t].eng = IF e.ok THEN "ok" ELSE e.err,
                                 ![t].reported = e.count]
           /\ store' = EngineReads(store, p)
           /\ hazard' = ReadHazard(p)
    /\ pc' = [pc EXCEPT ![t] = "adapt"]
    /\ UNCHANGED <<images, handle, result, dev, cookie>>

\* .and_then(|quads| rust_vec_from_ffi_ptr(quads, hit_count)), and search returns
SearchReturn(t) ==
    /\ pc[t] = "adapt"
    /\ IF AdapterInvoked(cur[t].eng = "ok")
       THEN LET len == AdaptLen(hit_count[HitCountCell(t)], AsCInt(cur[t].hit_max))
                a == RustVecFromFfiPtr(buf[t], len)
            IN  /\ result' = [result EXCEPT ![t] = Ok(a.val)]
                /\ buf' = [buf EXCEPT ![t] = a.buf]
                /\ cur' = [cur EXCEPT ![t].adaptLen = len]
                /\ hazard' = IF a.sound THEN hazard ELSE hazard \cup {"bad_transfer"}
       ELSE /\ result' = [result EXCEPT ![t] = Err(cur[t].eng)]
            /\ UNCHANGED <<buf, cur, hazard>>
    /\ pc' = [pc EXCEPT ![t] = "done"]
    /\ UNCHANGED <<store, images, handle, hit_count, dev, cookie>>

\* the caller lets go of the hits: the owned sequence frees the engine's buffer
ResultDrop(t) ==
    /\ pc[t] = "done"
    /\ buf[t].st = "owned"
    /\ buf' = [buf EXCEPT ![t].st = "freed", ![t].frees = @ + 1]
    /\ UNCHANGED <<store, images, handle, pc, cur, hit_count, result, dev, cookie, hazard>>

\* the caller is through with what the call returned; its locals are gone
Forget(t) ==
    /\ pc[t] = "done"
    /\ buf[t].st # "owned"
    /\ pc' = [pc EXCEPT ![t] = "idle"]
    /\ cur' = [cur EXCEPT ![t] = NoCall]
    /\ result' = [result EXCEPT ![t] = NoResult]
    /\ buf' = [buf EXCEPT ![t] = NoBuf]
    /\ dev' = [dev EXCEPT ![t] = <<>>]
    /\ hit_count' = [hit_count EXCEPT ![HitCountCell(t)] = 0]
    /\ UNCHANGED <<store, images, handle, cookie, hazard>>

RunOps == {"run", "run_with_cookie"}

\* run_with_cookie passing no cookie, as run does
CookieArgNull(op) == FALSE

\* the cookie argument of mupdf_display_list_run: cookie.inner, or ptr::null_mut() in run
CookieArg(op) == op = "run_with_cookie"

\* run(device, ctm, area) and run_with_cookie(device, ctm, area, cookie) enter the engine
RunCall(t, h, op) ==
    /\ CallerMayUse(t, h)
    /\ op \in RunOps
    /\ cur' = [cur EXCEPT ![t] = [NewCall(op, h) EXCEPT !.cookieArg = CookieArg(op),
                                                         !.pre = cookie]]
    /\ dev' = [dev EXCEPT ![t] = <<>>]
    /\ result' = [result EXCEPT ![t] = Pending]
    /\ pc' = [pc EXCEPT ![t] = "replay"]
    /\ UNCHANGED <<store, images, handle, hit_count, buf, cookie, hazard>>

\* the engine's playback loop: poll the cookie, then forward the next primitive
ReplayStep(t, devOk) ==
    /\ pc[t] = "replay"
    /\ LET p == handle[cur[t].h].inner
           l == ListAt(p)
           stop == cur[t].cookieArg /\ cookie
           finished == cur[t].pos >= Len(l.ops)
       IN  /\ (stop \/ finished) => devOk
           /\ IF stop \/ finished
              THEN /\ result' = [result EXCEPT ![t] = Ok(<<>>)]
                   /\ pc' = [pc EXCEPT ![t] = "done"]
                   /\ UNCHANGED <<dev, cur>>
              ELSE IF devOk
              THEN /\ dev' = [dev EXCEPT ![t] = Append(@, l.ops[cur[t].pos + 1])]
                   /\ cur' = [cur EXCEPT ![t].pos = @ + 1]
                   /\ UNCHANGED <<result, pc>>
              ELSE /\ result' = [result EXCEPT ![t] = Err("RenderError")]
                   /\ pc' = [pc EXCEPT ![t] = "done"]
                   /\ UNCHANGED <<dev, cur>>
           /\ store' = EngineReads(store, p)
           /\ hazard' = ReadHazard(p)
    /\ UNCHANGED <<images, handle, hit_count, buf, cookie>>

\* the cookie's owner asks for cancellation
CookieAbort ==
    /\ ~cookie
    /\ cookie' = TRUE
    /\ UNCHANGED <<store, images, handle, pc, cur, hit_count, buf, result, dev, hazard>>

\* the owner takes a fresh cookie once no replay is using the old one
CookieRenew ==
    /\ cookie
    /\ \A t \in Threads : pc[t] # "replay"
    /\ cookie' = FALSE
    /\ UNCHANGED <<store, images, handle, pc, cur, hit_count, buf, result, dev, hazard>>

----------------------------------------------------------------------------
(* Inputs *)

\* the recordings a page conversion may produce: every short one, and one with
\* more occurrences of a needle than the default cap
LongRecording == Repeat(1, DefaultHitMax + 1)

Recordings == SeqsUpTo(Glyphs, MaxRecLen) \cup {LongRecording}

Needles == SeqsUpTo(Bytes, MaxNeedleLen)

\* u32 caps: the small ones, the default and its successor, and the edges of the C int
Caps == (0 .. MaxCap) \cup {DefaultHitMax, DefaultHitMax + 1,
                            IntMax, IntMax + 1, U32Modulus - 1}

\* the inputs of the specifications that interleave threads
FewRecordings == {<<>>, <<1>>, <<1, 1>>}
FewNeedles == {<<1>>, <<2>>}
FewCaps == {0, 1}

----------------------------------------------------------------------------
(* Specifications *)

Init ==
    /\ store = [p \in Ptrs |-> NoList]
    /\ images = [p \in Ptrs |-> 0]
    /\ handle = [h \in Handles |-> NoHandle]
    /\ pc = [t \in Threads |-> "idle"]
    /\ cur = [t \in Threads |-> NoCall]
    /\ hit_count = [c \in Threads |-> 0]
    /\ buf = [t \in Threads |-> NoBuf]
    /\ result = [t \in Threads |-> NoResult]
    /\ dev = [t \in Threads |-> <<>>]
    /\ cookie = FALSE
    /\ hazard = {}

\* objects are made, shared and dropped around a caller whose calls are in flight
Next ==
    \/ \E h \in Handles, ok \in BOOLEAN : New(h, "a4", ok)
    \/ \E h \in Handles : PageToDisplayList(h, "a4", <<1>>)
    \/ \E h \in Handles, p \in Ptrs : AdoptShared(h, p)
    \/ \E h \in Handles : Drop(h)
    \/ \E p \in Ptrs : ImageDrop(p)
    \/ \E h \in Handles, op \in SimpleOps : Call(1, h, op)
    \/ \E ok \in BOOLEAN : EngineSimple(1, ok)
    \/ \E h \in Handles : RunCall(1, h, "run")
    \/ \E devOk \in BOOLEAN : ReplayStep(1, devOk)
    \/ Forget(1)

Spec == Init /\ [][Next]_vars

\* one object, one caller, every public operation in any order
NextOps ==
    \/ \E ok \in BOOLEAN : New(1, "a4", ok)
    \/ \E ops \in FewRecordings : PageToDisplayList(1, "a4", ops)
    \/ \E g \in Glyphs : Populate(1, g)
    \/ \E op \in SimpleOps : Call(1, 1, op)
    \/ \E ok \in BOOLEAN : EngineSimple(1, ok)
    \/ \E needle \in FewNeedles, n \in FewCaps : SearchCall(1, 1, needle, n)
    \/ \E outcome \in EngineOutcomes : SearchEngine(1, outcome)
    \/ SearchReturn(1)
    \/ ResultDrop(1)
    \/ Forget(1)
    \/ \E op \in RunOps : RunCall(1, 1, op)
    \/ \E devOk \in BOOLEAN : ReplayStep(1, devOk)
    \/ ImageDrop(1)
    \/ CookieAbort
    \/ CookieRenew

SpecOps == Init /\ [][NextOps]_vars

\* one caller, one object, every needle and cap
NextSearch ==
    \/ \E region \in Regions, ok \in BOOLEAN : New(1, region, ok)
    \/ \E region \in Regions, ops \in Recordings : PageToDisplayList(1, region, ops)
    \/ \E g \in Glyphs : Populate(1, g)
    \/ Call(1, 1, "is_empty")
    \/ \E ok \in BOOLEAN : EngineSimple(1, ok)
    \/ \E needle \in Needles, n \in Caps : SearchCall(1, 1, needle, n)
    \/ \E outcome \in EngineOutcomes : SearchEngine(1, outcome)
    \/ SearchReturn(1)
    \/ ResultDrop(1)
    \/ Forget(1)

SpecSearch == Init /\ [][NextSearch]_vars

\* the threads of the multi-threaded test: one shared object, concurrent searches
NextShared ==
    \/ \E ops \in FewRecordings : PageToDisplayList(1, "a4", ops)
    \/ \E t \in Threads, needle \in FewNeedles, n \in FewCaps : SearchCall(t, 1, needle, n)
    \/ \E t \in Threads, outcome \in EngineOutcomes : SearchEngine(t, outcome)
    \/ \E t \in Threads : SearchReturn(t)
    \/ \E t \in Threads : ResultDrop(t)
    \/ \E t \in Threads : Forget(t)

SpecShared == Init /\ [][NextShared]_vars

\* one caller replays recordings into a device while the cookie's owner may cancel
NextRun ==
    \/ \E region \in Regions, ops \in Recordings : PageToDisplayList(1, region, ops)
    \/ \E op \in RunOps : RunCall(1, 1, op)
    \/ \E devOk \in BOOLEAN : ReplayStep(1, devOk)
    \/ Forget(1)
    \/ CookieAbort
    \/ CookieRenew

SpecRun == Init /\ [][NextRun]_vars

----------------------------------------------------------------------------
(* What the claims speak of *)

Done(t, op) == pc[t] = "done" /\ cur[t].op = op

Succeeded(t) == result[t].kind = "ok"

\* the list thread t's call is made on
ListOf(t) == ListAt(handle[cur[t].h].inner)

\* the cap the documentation gives a call with cap n
CapInForce(n) == IF n >= 1 THEN n ELSE DefaultHitMax

\* the occurrences of the call's needle in the recording the call was made on
Occurrences(t) == Scan(cur[t].ops0, cur[t].needle, 1)

\* a returned sequence holding exactly these hits
Hits(q) == [quads |-> q, zeros |-> 0, wild |-> 0]

\* the engine's own search failed, and that failure is what the call returned
EngineFailure(t) ==
    /\ cur[t].eng \in {"AllocationError", "RenderError"}
    /\ result[t] = Err(cur[t].eng)

\* the list was made empty by new and nothing has been recorded into it
MadeEmpty(t) ==
    /\ cur[t].h \in Handles
    /\ ListOf(t).origin = "new"
    /\ ~ListOf(t).populated
    /\ cur[t].ops0 = <<>>

----------------------------------------------------------------------------
(* C1, as stated: search(needle, n) never returns more than max(n, 1) hits. *)
(* Refuted: with n = 0 the cap in force is 16.                              *)
C1_AtMostMaxOfCapAndOne ==
    \A t \in Threads :
        (Done(t, "search") /\ Succeeded(t))
            => ResultLen(result[t].val) <= Max(cur[t].n, 1)

(* C1, amended: search(needle, n) never returns more than n hits when       *)
(* n >= 1 and never more than 16 when n = 0; a call with n < 1 hands the    *)
(* engine the cap 16 and returns what search(needle, 16) returns.           *)
C1_AtMostCapInForce ==
    \A t \in Threads :
        /\ (cur[t].op = "search" /\ pc[t] \in {"engine", "adapt"} /\ cur[t].n < 1)
               => AsCInt(cur[t].hit_max) = DefaultHitMax
        /\ (Done(t, "search") /\ Succeeded(t))
               => /\ ResultLen(result[t].val) <= CapInForce(cur[t].n)
                  /\ cur[t].n < 1 =>
                        /\ buf[t].cap = DefaultHitMax
                        /\ result[t].val = Hits(Take(Occurrences(t), DefaultHitMax))

\* a search with cap 0 over a recording with more than 16 occurrences returned 16
C1_Witness ==
    /\ Done(1, "search")
    /\ Succeeded(1)
    /\ cur[1].n = 0
    /\ Len(Occurrences(1)) > DefaultHitMax
    /\ ResultLen(result[1].val) = DefaultHitMax

(* C2: a search whose needle holds a NUL byte returns InvalidArgument in    *)
(* the step that makes the call: the engine search is not invoked, no hit   *)
(* buffer exists, and the heap, the objects and their reference counts are  *)
(* what they were.                                                          *)
C2_NulNeedleNoSearch ==
    [][\A t \in Threads :
          (pc[t] = "idle" /\ pc'[t] # "idle" /\ cur'[t].op = "search"
              /\ HasNul(cur'[t].needle))
            => /\ pc'[t] = "done"
               /\ result'[t] = Err("InvalidArgument")
               /\ cur'[t].engineCalls = 0
               /\ buf'[t] = NoBuf
               /\ UNCHANGED <<store, images, handle, hit_count, hazard>>]_vars

\* a search with a NUL in the needle has been made on a live, non-empty list
C2_Witness ==
    /\ Done(1, "search")
    /\ HasNul(cur[1].needle)
    /\ result[1] = Err("InvalidArgument")
    /\ cur[1].ops0 # <<>>
    /\ ListOf(1).refs = 1

(* C3: a thread searching a shared object while other threads search it     *)
(* gets what a call alone gets: on success exactly the first occurrences up *)
(* to the cap, and an error only when its own engine call failed; two       *)
(* threads with the same needle and cap that both succeed hold equal hits.  *)
C3_SearchAsIfAlone ==
    /\ \A t \in Threads :
          Done(t, "search") =>
              /\ Succeeded(t) =>
                    result[t].val = Hits(Take(Occurrences(t), CapInForce(cur[t].n)))
              /\ ~Succeeded(t) => EngineFailure(t)
              /\ cur[t].eng = "ok" => Succeeded(t)
    /\ \A t, u \in Threads :
          (Done(t, "search") /\ Done(u, "search") /\ Succeeded(t) /\ Succeeded(u)
              /\ cur[t].needle = cur[u].needle /\ cur[t].n = cur[u].n)
            => result[t].val = result[u].val

\* one thread holds a hit while another, searching the same needle, is inside its call
C3_Witness ==
    /\ Done(1, "search")
    /\ Succeeded(1)
    /\ ResultLen(result[1].val) = 1
    /\ pc[2] = "adapt"
    /\ cur[2].needle = cur[1].needle
    /\ cur[2].eng = "ok"

----------------------------------------------------------------------------
\* who holds a reference to the recording at p: live objects and engine images
Owners(p) ==
    Cardinality({h \in Handles : handle[h].st = "live" /\ handle[h].inner = p})
        + images[p]

(* C4: every live object and every engine image accounts for exactly one    *)
(* reference, so a drop releases one; storage is freed exactly when nobody  *)
(* holds it any more and is freed at most once; no call in flight ever      *)
(* reads freed storage, whatever is dropped around it.                      *)
C4_OneReferencePerOwner ==
    /\ hazard = {}
    /\ \A p \in Ptrs :
          /\ store[p].frees <= 1
          /\ store[p].st = "live" => (store[p].refs = Owners(p) /\ Owners(p) >= 1)
          /\ store[p].st = "freed" => (store[p].frees = 1 /\ Owners(p) = 0)
          /\ store[p].st = "unalloc" => (store[p].frees = 0 /\ Owners(p) = 0)
    /\ \A t \in Threads : InFlight(t) => Live(handle[cur[t].h].inner)

\* one object was dropped while a call was in flight on another object that
\* shares its recording
C4_Witness ==
    \E h, k \in Handles :
        /\ handle[h].st = "dropped"
        /\ handle[k].st = "live"
        /\ handle[h].inner = handle[k].inner
        /\ InFlight(1)
        /\ cur[1].h = k
        /\ store[handle[k].inner].refs = 1

(* C5: a run_with_cookie whose cookie was already signaled when the call    *)
(* was made forwards only a prefix of the recording to the device, returns  *)
(* success, and leaves the recording as it was.                             *)
C5_PreSignaledCookie ==
    \A t \in Threads :
        (cur[t].op = "run_with_cookie" /\ cur[t].pre) =>
            /\ IsPrefix(dev[t], cur[t].ops0)
            /\ pc[t] = "done" =>
                  /\ Succeeded(t)
                  /\ ListOf(t).ops = cur[t].ops0

\* such a call has returned, on a recording that had something to forward
C5_Witness ==
    /\ Done(1, "run_with_cookie")
    /\ cur[1].pre
    /\ Succeeded(1)
    /\ Len(cur[1].ops0) >= 2

\* the recordings: what is stored where, but not how many references are held
Recording == [p \in Ptrs |-> [st |-> store[p].st, ops |-> store[p].ops,
                              mediabox |-> store[p].mediabox]]

\* a step of a public operation: a thread moves or its call's data change
OperationStep == <<pc, cur, buf, result, dev, hit_count>>' # <<pc, cur, buf, result, dev, hit_count>>

C7_EmptyListSearchesEmpty ==
    \A t \in Threads :
        MadeEmpty(t) =>
            /\ Done(t, "is_empty") => result[t] = Ok(TRUE)
            /\ (Done(t, "search") /\ ~HasNul(cur[t].needle) /\ cur[t].env = "ok")
                  => result[t] = Ok(Hits(<<>>))

C9_LiveHandleNonNull ==
    \A h \in Handles :
        /\ handle[h].st = "live" => handle[h].inner # NullPtr
        /\ handle[h].st = "failed" => handle[h].inner = NullPtr

\* one new failed and left no object, while another object is live
C9_Witness ==
    \E h, k \in Handles :
        /\ handle[h].st = "failed"
        /\ handle[k].st = "live"
        /\ ListAt(handle[k].inner).origin = "new"

(* C10: in a search call the hit buffer goes to the adapter once when the   *)
(* engine search succeeded and never when it failed; the count handed over  *)
(* is the count the engine reported, which is at most the buffer's          *)
(* capacity, the cap in force; the buffer is never released twice and is    *)
(* released once the hits are dropped.                                      *)
C10_BufferHandedOverOnce ==
    /\ hazard = {}
    /\ \A t \in Threads :
          /\ buf[t].moves <= 1
          /\ buf[t].frees <= 1
          /\ buf[t].st = "freed" => buf[t].frees = 1
          /\ buf[t].st \in {"engine", "owned"} => buf[t].frees = 0
          /\ cur[t].op = "search" =>
                /\ cur[t].engineCalls <= 1
                /\ cur[t].eng # "ok" => buf[t].moves = 0
                /\ pc[t] = "adapt" => buf[t].moves = 0
                /\ (pc[t] = "done" /\ cur[t].eng = "ok") =>
                      /\ buf[t].moves = 1
                      /\ cur[t].adaptLen = cur[t].reported
                      /\ cur[t].reported <= buf[t].cap
                      /\ buf[t].cap = CapInForce(cur[t].n)

\* the hits of a successful search were handed over and then released
C10_Witness ==
    /\ Done(1, "search")
    /\ cur[1].eng = "ok"
    /\ cur[1].reported >= 1
    /\ buf[1].moves = 1
    /\ buf[1].st = "freed"

====
